---- MODULE Spec2Model ----
(***************************************************************************)
(* Model of the two interactive generators of the repository:             *)
(*   generate-ansible-template.py  (inventory / playbook / task files)    *)
(*   generate-iam-template.py      (IAM playbook and encrypted vault)     *)
(* Python dicts are modelled as functions whose DOMAIN is the key set, so  *)
(* that `key in d`, d.get(key) and dict equality read as in the source.    *)
(* Python lists and insertion-ordered dicts are modelled as sequences.     *)
(***************************************************************************)
EXTENDS Integers, Sequences, FiniteSets, TLC

\* ------------------------------------------------------------------ bounds
\* servers entered in one run of the Ansible generator
MaxServers == 2
\* software entries typed in one run of the Ansible generator (all servers)
MaxSoftware == 3
\* servers of a software group handed to the task synthesizer (TaskSpec)
MaxGroupServers == 3

VARIABLES
    prog,             \* which generator this run executes: "ansible" or "iam"
    pc,               \* position of the run in the program text
    bucket_name,      \* get_user_input: bucket_name
    servers,          \* get_user_input / main: servers (None is modelled as <<>>)
    server,           \* get_user_input: the server dict being filled in
    software_groups,  \* get_user_input / main: list(software_groups.values())
    files,            \* the files on disk written by the run: path -> document
    users,            \* IAM get_user_input / main: users
    user,             \* IAM get_user_input: the fields of the record accepted so far
    vault_password,   \* IAM main: vault_password
    vault_run         \* IAM create_vault_file: what the external tools did

vars == <<prog, pc, bucket_name, servers, server, software_groups, files,
          users, user, vault_password, vault_run>>

ansibleVars == <<bucket_name, servers, server, software_groups>>
iamVars == <<users, user, vault_password, vault_run>>

\* ---------------------------------------------------------------- helpers
Range(s) == {s[i] : i \in 1..Len(s)}

\* Python: x in list
InList(x, s) == \E i \in 1..Len(s) : s[i] = x

RECURSIVE Concat(_)
\* list.extend over a sequence of lists
Concat(ss) == IF ss = <<>> THEN <<>> ELSE Head(ss) \o Concat(Tail(ss))

\* the empty dict / no file written
EmptyDict == [k \in {} |-> TRUE]

\* str.strip() on the answers the model types
Strip(s) ==
    CASE s = " "       -> ""
      [] s = "web2 "   -> "web2"
      [] s = " nginx"  -> "nginx"
      [] s = " bob"    -> "bob"
      [] OTHER         -> s

\* str.lower() on the answers the model types
Lower(s) ==
    CASE s = "Y"       -> "y"
      [] s = "Ubuntu"  -> "ubuntu"
      [] s = "Latest"  -> "latest"
      [] s = "Snap"    -> "snap"
      [] OTHER         -> s

\* create_vault_file has not run
NoVaultRun == [encrypt |-> "none", rm |-> "none"]

\* ------------------------------------------------- generate-ansible-template
get_os_family(os_type) ==
    CASE Lower(os_type) \in {"ubuntu", "debian"}                      -> "Debian"
      [] Lower(os_type) \in {"centos", "rhel", "amazonlinux", "fedora"} -> "RedHat"
      [] Lower(os_type) = "windows"                                   -> "Windows"
      [] OTHER                                                         -> "Linux"

\* lines 42-56: the server dict built from the answers
NewServer(bucket, hostname, instance_id, region, os_answer) ==
    LET os_type == Lower(Strip(os_answer)) IN
    [hostname    |-> hostname,
     instance_id |-> Strip(instance_id),
     region      |-> Strip(region),
     os_type     |-> os_type,
     os_family   |-> get_os_family(os_type),
     bucket_name |-> bucket,
     software    |-> <<>>]

\* lines 64-93: the info dict built from the answers to the software prompts.
\* a is the record of answers; prompts the code does not reach are not read.
MakeInfo(a) ==
    LET software == Strip(a.software)
        version == Strip(a.version)
        install_method == IF Lower(Strip(a.install_method)) = ""
                          THEN "package" ELSE Lower(Strip(a.install_method))
        base == [name |-> software, install_method |-> install_method]
        withVersion == IF version # "" /\ Lower(version) # "latest"
                       THEN base @@ ("version" :> version) ELSE base
        repo_url == Strip(a.repo_url)
        key_url == Strip(a.key_url)
        package_name == IF Strip(a.package_name) = "" THEN software
                        ELSE Strip(a.package_name)
        repo0 == [repo_url |-> repo_url, package_name |-> package_name]
        custom_repo == IF key_url # "" THEN repo0 @@ ("key_url" :> key_url) ELSE repo0
    IN  CASE install_method = "package" ->
               IF Lower(Strip(a.custom)) = "y"
               THEN withVersion @@ ("custom_repo" :> custom_repo)
               ELSE withVersion
          [] install_method = "script" ->
               withVersion @@ ("script_url" :> Strip(a.script_url))
          [] install_method = "manual" ->
               withVersion @@ ("download_url" :> Strip(a.download_url))
                           @@ ("install_path" :>
                                 IF Strip(a.install_path) = ""
                                 THEN "/opt/" \o software
                                 ELSE Strip(a.install_path))
          [] OTHER -> withVersion

\* mutant: the config is appended without the `not in` test of line 117
AddToGroups_always_append(groups, srv, software) ==
    LET name == software["name"]
        g0 == IF \E i \in 1..Len(groups) : groups[i].key = name
              THEN groups
              ELSE Append(groups, [key |-> name, configs |-> <<>>, servers |-> <<>>])
        i == CHOOSE j \in 1..Len(g0) : g0[j].key = name
    IN  [g0 EXCEPT ![i].servers = Append(@, [server |-> srv, config |-> software]),
                   ![i].configs = Append(@, software)]

\* lines 105-118: one (server, software) pair added to the software_groups
\* dict, kept as the insertion-ordered sequence of its (key, value) items
AddToGroups(groups, srv, software) ==
    LET name == software["name"]
        g0 == IF \E i \in 1..Len(groups) : groups[i].key = name
              THEN groups
              ELSE Append(groups, [key |-> name, configs |-> <<>>, servers |-> <<>>])
        i == CHOOSE j \in 1..Len(g0) : g0[j].key = name
        g1 == [g0 EXCEPT ![i].servers = Append(@, [server |-> srv, config |-> software])]
    IN  IF InList(software, g1[i].configs)
        THEN g1
        ELSE [g1 EXCEPT ![i].configs = Append(@, software)]

RECURSIVE GroupServerSoftware(_, _, _)
\* lines 104-118: the inner loop over one server's software
GroupServerSoftware(groups, srv, k) ==
    IF k > Len(srv.software) THEN groups
    ELSE GroupServerSoftware(AddToGroups(groups, srv, srv.software[k]), srv, k + 1)

RECURSIVE GroupServers(_, _, _)
\* lines 102-118: the outer loop over the servers
GroupServers(groups, srvs, k) ==
    IF k > Len(srvs) THEN groups
    ELSE GroupServers(GroupServerSoftware(groups, srvs[k], 1), srvs, k + 1)

\* lines 101-120: list(software_groups.values())
GroupSoftware(srvs) ==
    LET groups == GroupServers(<<>>, srvs, 1) IN
    [i \in 1..Len(groups) |->
        [configs |-> groups[i].configs, servers |-> groups[i].servers]]

\* mutant: only the first server of the group becomes a host
InventoryHosts_first_only(software_group) ==
    LET srv == software_group.servers[1].server IN
    (srv.hostname :> [ansible_connection          |-> "aws_ssm",
                      ansible_aws_ssm_instance_id |-> srv.instance_id,
                      ansible_aws_ssm_region      |-> srv.region])

\* lines 131-137: the hosts dict of one group; the last assignment to
\* hosts[hostname] is the one that stays
InventoryHosts(software_group) ==
    LET assocs == software_group.servers IN
    [h \in {assocs[i].server.hostname : i \in 1..Len(assocs)} |->
        LET last == CHOOSE i \in 1..Len(assocs) :
                      /\ assocs[i].server.hostname = h
                      /\ \A j \in (i+1)..Len(assocs) : assocs[j].server.hostname # h
            srv == assocs[last].server
        IN  [ansible_connection          |-> "aws_ssm",
             ansible_aws_ssm_instance_id |-> srv.instance_id,
             ansible_aws_ssm_region      |-> srv.region]]

\* lines 123-139
generate_inventory(groups) ==
    LET GroupName(g) == g.configs[1]["name"] \o "_servers"
        \* a later group of the same key would replace the earlier one
        Children ==
            [n \in {GroupName(groups[i]) : i \in 1..Len(groups)} |->
                LET last == CHOOSE i \in 1..Len(groups) :
                              /\ GroupName(groups[i]) = n
                              /\ \A j \in (i+1)..Len(groups) : GroupName(groups[j]) # n
                IN  [hosts |-> InventoryHosts(groups[last])]]
    IN  [all |-> [children |-> Children]]

\* lines 142-151
generate_playbook(groups) ==
    [i \in 1..Len(groups) |->
        LET name == groups[i].configs[1]["name"] IN
        [name   |-> "Install " \o name,
         hosts  |-> name \o "_servers",
         become |-> TRUE,
         tasks  |-> << [name          |-> "Include " \o name \o " tasks",
                        include_tasks |-> "tasks/" \o name \o ".yml"] >>]]

\* software['custom_repo'].get('key_url') is truthy
HasKeyUrl(software) ==
    /\ "key_url" \in DOMAIN software["custom_repo"]
    /\ software["custom_repo"]["key_url"] # ""

\* software.get('custom_repo', {}).get('package_name', software['name'])
PackageName(software) ==
    IF "custom_repo" \in DOMAIN software
       /\ "package_name" \in DOMAIN software["custom_repo"]
    THEN software["custom_repo"]["package_name"]
    ELSE software["name"]

\* the guard string of lines 191, 203, 212, 222, 234, 239
WhenGuard(os_family) == "ansible_os_family == '" \o os_family \o "'"

\* lines 183-213: the repository bootstrap steps of conditional mode
OsRepoTasks(software, os_family) ==
    LET name == software["name"]
        when == WhenGuard(os_family)
        key_task ==
            IF HasKeyUrl(software)
            THEN << [name    |-> "Add GPG key for " \o name,
                     rpm_key |-> [key |-> software["custom_repo"]["key_url"]],
                     when    |-> when] >>
            ELSE <<>>
    IN  IF "custom_repo" \in DOMAIN software
        THEN key_task \o
             << [name           |-> "Add repository for " \o name,
                 yum_repository |-> [name        |-> name \o "-repo",
                                     description |-> name \o " Repository",
                                     baseurl     |-> software["custom_repo"]["repo_url"],
                                     enabled     |-> TRUE,
                                     gpgcheck    |-> HasKeyUrl(software)],
                 when           |-> when],
                [name |-> "Update package cache for " \o name,
                 yum  |-> [update_cache |-> TRUE],
                 when |-> when] >>
        ELSE <<>>

\* lines 215-223: the install step of conditional mode
OsInstallTask(software, os_family) ==
    << [name    |-> "Install " \o software["name"] \o " on " \o os_family,
        package |-> [name |-> PackageName(software), state |-> "latest"],
        when    |-> WhenGuard(os_family)] >>

\* mutant: the install step is appended before the repository steps
OsPackageTasks_install_first(software, os_family) ==
    OsInstallTask(software, os_family) \o OsRepoTasks(software, os_family)

\* lines 182-223: the package branch of conditional mode
OsPackageTasks(software, os_family) ==
    OsRepoTasks(software, os_family) \o OsInstallTask(software, os_family)

\* lines 178-243
generate_os_specific_tasks(software, os_family) ==
    LET method == IF "install_method" \in DOMAIN software
                  THEN software["install_method"] ELSE "package"
        name == software["name"]
        when == WhenGuard(os_family)
    IN  CASE method = "package" -> OsPackageTasks(software, os_family)
          [] method = "script" ->
               << [name    |-> "Download script for " \o name \o " on " \o os_family,
                   get_url |-> [url  |-> software["script_url"],
                                dest |-> "/tmp/" \o name \o ".sh",
                                mode |-> "0755"],
                   when    |-> when],
                  [name  |-> "Run script for " \o name \o " on " \o os_family,
                   shell |-> "/tmp/" \o name \o ".sh",
                   when  |-> when] >>
          [] OTHER -> <<>>

\* lines 246-331
generate_basic_tasks(software) ==
    LET method == IF "install_method" \in DOMAIN software
                  THEN software["install_method"] ELSE "package"
        name == software["name"]
        key_task ==
            IF HasKeyUrl(software)
            THEN << [name    |-> "Add GPG key for " \o name,
                     rpm_key |-> [key |-> software["custom_repo"]["key_url"]]] >>
            ELSE <<>>
        repo_tasks ==
            IF "custom_repo" \in DOMAIN software
            THEN key_task \o
                 << [name           |-> "Add repository for " \o name,
                     yum_repository |-> [name        |-> name \o "-repo",
                                         description |-> name \o " Repository",
                                         baseurl     |-> software["custom_repo"]["repo_url"],
                                         enabled     |-> TRUE,
                                         gpgcheck    |-> HasKeyUrl(software)]],
                    [name |-> "Update package cache for " \o name,
                     yum  |-> [update_cache |-> TRUE]] >>
            ELSE <<>>
    IN  CASE method = "package" ->
               repo_tasks \o
               << [name    |-> "Install " \o name,
                   package |-> [name |-> PackageName(software), state |-> "latest"]] >>
          [] method = "snap" ->
               << [name |-> "Install " \o name \o " via snap",
                   snap |-> [name |-> name]] >>
          [] method = "script" ->
               << [name    |-> "Download script for " \o name,
                   get_url |-> [url  |-> software["script_url"],
                                dest |-> "/tmp/" \o name \o ".sh",
                                mode |-> "0755"]],
                  [name  |-> "Run script for " \o name,
                   shell |-> "/tmp/" \o name \o ".sh"] >>
          [] method = "manual" ->
               << [name |-> "Create install directory",
                   file |-> [path  |-> software["install_path"],
                             state |-> "directory",
                             mode  |-> "0755"]],
                  [name      |-> "Download and extract",
                   unarchive |-> [src        |-> software["download_url"],
                                  dest       |-> software["install_path"],
                                  remote_src |-> TRUE]] >>
          [] OTHER -> <<>>

RECURSIVE OsConfigsFrom(_, _, _)
\* lines 159-164: the os_configs dict as the insertion-ordered sequence of
\* its items; a family already present keeps its first config
OsConfigsFrom(os_configs, assocs, k) ==
    IF k > Len(assocs) THEN os_configs
    ELSE LET os_family == assocs[k].server.os_family
             config == assocs[k].config
         IN  IF \E i \in 1..Len(os_configs) : os_configs[i].os_family = os_family
             THEN OsConfigsFrom(os_configs, assocs, k + 1)
             ELSE OsConfigsFrom(
                      Append(os_configs, [os_family |-> os_family, config |-> config]),
                      assocs, k + 1)

RECURSIVE OsConfigsLastWins(_, _, _)
OsConfigsLastWins(os_configs, assocs, k) ==
    IF k > Len(assocs) THEN os_configs
    ELSE LET os_family == assocs[k].server.os_family
             config == assocs[k].config
         IN  IF \E i \in 1..Len(os_configs) : os_configs[i].os_family = os_family
             THEN OsConfigsLastWins(
                      [i \in 1..Len(os_configs) |->
                          IF os_configs[i].os_family = os_family
                          THEN [os_family |-> os_family, config |-> config]
                          ELSE os_configs[i]],
                      assocs, k + 1)
             ELSE OsConfigsLastWins(
                      Append(os_configs, [os_family |-> os_family, config |-> config]),
                      assocs, k + 1)

\* mutant: os_configs[os_family] = config without the `not in` test of line 163
OsConfigs_last_wins(software_group) ==
    OsConfigsLastWins(<<>>, software_group.servers, 1)

\* lines 159-164
OsConfigs(software_group) == OsConfigsFrom(<<>>, software_group.servers, 1)

\* mutant: the branch of line 167 taken only above two families
generate_software_tasks_above_two(software_group) ==
    LET os_configs == OsConfigs(software_group) IN
    IF Len(os_configs) > 2
    THEN Concat([i \in 1..Len(os_configs) |->
                    generate_os_specific_tasks(os_configs[i].config,
                                               os_configs[i].os_family)])
    ELSE generate_basic_tasks(os_configs[1].config)

\* lines 154-175
generate_software_tasks(software_group) ==
    LET os_configs == OsConfigs(software_group) IN
    IF Len(os_configs) > 1
    THEN Concat([i \in 1..Len(os_configs) |->
                    generate_os_specific_tasks(os_configs[i].config,
                                               os_configs[i].os_family)])
    ELSE generate_basic_tasks(os_configs[1].config)

\* the path of a group's task file, line 349
TaskFile(group) == "tasks/" \o group.configs[1]["name"] \o ".yml"

\* mutant: every entered server is also listed, under a group of its own
InventoryDocument_with_all_servers(srvs, groups) ==
    LET inventory == generate_inventory(groups)
        everyone == [h \in {srvs[i].hostname : i \in 1..Len(srvs)} |->
                        [ansible_connection |-> "aws_ssm"]]
    IN  [all |-> [children |->
            ("ungrouped_servers" :> [hosts |-> everyone])
            @@ inventory["all"]["children"]]]

\* line 339: the inventory create_files dumps; servers is not read
InventoryDocument(srvs, groups) == generate_inventory(groups)

\* lines 334-350: the files create_files writes, path -> dumped document
create_files(srvs, groups) ==
    LET paths == {"inventory.yml", "install-software.yml"}
                 \cup {TaskFile(groups[i]) : i \in 1..Len(groups)}
    IN  [p \in paths |->
            CASE p = "inventory.yml"        -> [doc |-> "inventory",
                                                inventory |-> InventoryDocument(srvs, groups)]
              [] p = "install-software.yml" -> [doc |-> "playbook",
                                                playbook |-> generate_playbook(groups)]
              [] OTHER ->
                   LET last == CHOOSE i \in 1..Len(groups) :
                                 /\ TaskFile(groups[i]) = p
                                 /\ \A j \in (i+1)..Len(groups) : TaskFile(groups[j]) # p
                   IN  [doc |-> "tasks",
                        tasks |-> generate_software_tasks(groups[last])]]

\* ------------------------------------------------ answers typed at the prompts
BucketAnswers == {"", " ", "ssm-logs"}
HostnameAnswers == {"", "web1", "web2 "}
InstanceIdAnswers == {"i-0a1b2c3d4"}
RegionAnswers == {"us-east-1"}
OsTypeAnswers == {"Ubuntu", "centos"}
AnotherAnswers == {"Y", "y", "n", ""}

\* one round of answers to the software prompts of lines 60-93
Answer(software, version, install_method, custom, key_url, package_name) ==
    [software       |-> software,
     version        |-> version,
     install_method |-> install_method,
     custom         |-> custom,
     repo_url       |-> "https://repo.example.com/" \o Strip(software),
     key_url        |-> key_url,
     package_name   |-> package_name,
     script_url     |-> "https://get.example.com/" \o Strip(software) \o ".sh",
     download_url   |-> "https://dl.example.com/" \o Strip(software) \o ".tgz",
     install_path   |-> ""]

KeyUrl == "https://repo.example.com/gpg"

\* every install method, with and without a custom repository and signing key
MethodAnswers(software, version) ==
    { Answer(software, version, "", "n", "", ""),
      Answer(software, version, "package", "Y", KeyUrl, "custom-pkg"),
      Answer(software, version, "package", "y", "", ""),
      Answer(software, version, "Snap", "", "", ""),
      Answer(software, version, "script", "", "", ""),
      Answer(software, version, "manual", "", "", ""),
      Answer(software, version, "source", "", "", "") }

\* the software answers of a run of the whole generator
SoftwareAnswers ==
    { Answer(" nginx", "", "", "n", "", ""),
      Answer("nginx", "Latest", "package", "", "", ""),
      Answer("nginx", "1.0", "package", "y", KeyUrl, ""),
      Answer("docker", "", "script", "", "", "") }

\* software entries typed so far in this run
TypedSoftware ==
    LET Count[k \in 0..Len(servers)] ==
            IF k = 0 THEN 0 ELSE Count[k - 1] + Len(servers[k].software)
    IN  Count[Len(servers)] + (IF pc = "software" THEN Len(server.software) ELSE 0)

\* --------------------------------------- generate-ansible-template: the run
\* lines 30-35
EnterBucket ==
    /\ prog = "ansible" /\ pc = "bucket"
    /\ \E answer \in BucketAnswers :
          /\ bucket_name' = Strip(answer)
          /\ \/ /\ Strip(answer) = ""          \* return None, None
                /\ pc' = "main"
             \/ /\ Strip(answer) # ""
                /\ pc' = "hostname"
    /\ servers' = <<>>
    /\ UNCHANGED <<prog, server, software_groups, files>>
    /\ UNCHANGED iamVars

\* lines 38-56, and on an empty hostname the break and lines 101-120
EnterHostname ==
    /\ prog = "ansible" /\ pc = "hostname"
    /\ \E answer \in HostnameAnswers :
          \/ /\ Strip(answer) = ""
             /\ software_groups' = GroupSoftware(servers)
             /\ pc' = "main"
             /\ UNCHANGED server
          \/ /\ Strip(answer) # ""
             /\ Len(servers) < MaxServers
             /\ \E instance_id \in InstanceIdAnswers, region \in RegionAnswers,
                   os_type \in OsTypeAnswers :
                   server' = NewServer(bucket_name, Strip(answer), instance_id,
                                      region, os_type)
             /\ pc' = "software"
             /\ UNCHANGED software_groups
    /\ UNCHANGED <<prog, bucket_name, servers, files>>
    /\ UNCHANGED iamVars

\* lines 60-95: one software entry of the current server
EnterSoftware ==
    /\ prog = "ansible" /\ pc = "software"
    /\ TypedSoftware < MaxSoftware
    /\ \E a \in SoftwareAnswers :
          /\ Strip(a.software) # ""
          /\ server' = [server EXCEPT !.software = Append(@, MakeInfo(a))]
    /\ UNCHANGED <<prog, pc, bucket_name, servers, software_groups, files>>
    /\ UNCHANGED iamVars

\* lines 60-62 and 97-99: an empty software name ends the server, which is
\* appended, and the answer to "Add another server?" either loops or breaks
\* into lines 101-120
FinishServer ==
    /\ prog = "ansible" /\ pc = "software"
    /\ servers' = Append(servers, server)
    /\ \E answer \in AnotherAnswers :
          \/ /\ Lower(Strip(answer)) = "y"
             /\ pc' = "hostname"
             /\ UNCHANGED software_groups
          \/ /\ Lower(Strip(answer)) # "y"
             /\ software_groups' = GroupSoftware(servers')
             /\ pc' = "main"
    /\ UNCHANGED <<prog, bucket_name, server, files>>
    /\ UNCHANGED iamVars

\* mutant: create_files is called without the test of line 358
Main_without_check ==
    /\ prog = "ansible" /\ pc = "main"
    /\ files' = create_files(servers, software_groups)
    /\ pc' = "done"
    /\ UNCHANGED <<prog, bucket_name, servers, server, software_groups>>
    /\ UNCHANGED iamVars

\* lines 357-361: main after get_user_input returned
Main ==
    /\ prog = "ansible" /\ pc = "main"
    /\ \/ /\ (servers = <<>> \/ software_groups = <<>>)
          /\ UNCHANGED files
       \/ /\ ~(servers = <<>> \/ software_groups = <<>>)
          /\ files' = create_files(servers, software_groups)
    /\ pc' = "done"
    /\ UNCHANGED <<prog, bucket_name, servers, server, software_groups>>
    /\ UNCHANGED iamVars

AnsibleInit ==
    /\ prog = "ansible"
    /\ pc = "bucket"
    /\ bucket_name = ""
    /\ servers = <<>>
    /\ server = <<>>
    /\ software_groups = <<>>
    /\ files = EmptyDict
    /\ users = <<>>
    /\ user = EmptyDict
    /\ vault_password = ""
    /\ vault_run = NoVaultRun

AnsibleNext ==
    \/ EnterBucket
    \/ EnterHostname
    \/ EnterSoftware
    \/ FinishServer
    \/ Main

AnsibleSpec == AnsibleInit /\ [][AnsibleNext]_vars

\* --------------------------------------------------- generate-iam-template
\* users entered in one run of the IAM generator
MaxUsers == 2
\* longest password typed at the password prompt
MaxPasswordLen == 13
\* line 46: len(password) < 12
MinPasswordLen == 12

\* Strings whose characters the code inspects are sequences of characters.
UpperChars == {"A", "B", "C", "D", "E", "F", "G", "H", "I", "J", "K", "L", "M",
               "N", "O", "P", "Q", "R", "S", "T", "U", "V", "W", "X", "Y", "Z"}
LowerChars == {"a", "b", "c", "d", "e", "f", "g", "h", "i", "j", "k", "l", "m",
               "n", "o", "p", "q", "r", "s", "t", "u", "v", "w", "x", "y", "z"}
DigitChars == {"0", "1", "2", "3", "4", "5", "6", "7", "8", "9"}
\* line 58
SymbolChars == {"!", "@", "#", "$", "%", "^", "&", "*", "(", ")", "_", "+", "-",
                "=", "[", "]", "{", "}", "|", ";", ":", ",", ".", "<", ">", "?"}

RECURSIVE StripChars(_)
\* str.strip() on a sequence of characters
StripChars(s) ==
    IF s = <<>> THEN s
    ELSE IF Head(s) = " " THEN StripChars(Tail(s))
    ELSE IF s[Len(s)] = " " THEN StripChars(SubSeq(s, 1, Len(s) - 1))
    ELSE s

DigitValue(c) ==
    CASE c = "0" -> 0 [] c = "1" -> 1 [] c = "2" -> 2 [] c = "3" -> 3 [] c = "4" -> 4
      [] c = "5" -> 5 [] c = "6" -> 6 [] c = "7" -> 7 [] c = "8" -> 8 [] c = "9" -> 9

RECURSIVE DigitsValue(_)
DigitsValue(s) ==
    IF s = <<>> THEN 0
    ELSE 10 * DigitsValue(SubSeq(s, 1, Len(s) - 1)) + DigitValue(s[Len(s)])

\* line 22: int(expiration_days); ok is FALSE where int() raises ValueError
ParseInt(s) ==
    LET signed == s # <<>> /\ Head(s) \in {"+", "-"}
        digits == IF signed THEN Tail(s) ELSE s
        ok == digits # <<>> /\ \A i \in 1..Len(digits) : digits[i] \in DigitChars
    IN  [ok    |-> ok,
         value |-> IF ~ok THEN 0
                   ELSE IF signed /\ Head(s) = "-" THEN 0 - DigitsValue(digits)
                   ELSE DigitsValue(digits)]

\* mutant: the digit check of lines 55-57 is missing
PasswordAccepted_without_digit_check(password) ==
    /\ password # <<>>
    /\ ~(Len(password) < MinPasswordLen)
    /\ \E i \in 1..Len(password) : password[i] \in UpperChars
    /\ \E i \in 1..Len(password) : password[i] \in LowerChars
    /\ \E i \in 1..Len(password) : password[i] \in SymbolChars

\* lines 43-60: the password passes every check of the inner loop
PasswordAccepted(password) ==
    /\ password # <<>>
    /\ ~(Len(password) < MinPasswordLen)
    /\ \E i \in 1..Len(password) : password[i] \in UpperChars
    /\ \E i \in 1..Len(password) : password[i] \in LowerChars
    /\ \E i \in 1..Len(password) : password[i] \in DigitChars
    /\ \E i \in 1..Len(password) : password[i] \in SymbolChars

\* lines 76-156
create_ansible_playbook(us, max_pw_age) ==
    LET password_policy_task ==
            [name   |-> "Set account password policy",
             module |-> "amazon.aws.iam_password_policy",
             args   |-> [min_pw_length |-> "12", pw_max_age |-> max_pw_age,
                         state |-> "present"]]
        UserTasks(u) ==
            << [name   |-> "Check if user " \o u.username \o " exists",
                module |-> "amazon.aws.iam_user_info",
                args   |-> [name |-> u.username]],
               [name   |-> "Create IAM user " \o u.username,
                module |-> "amazon.aws.iam_user",
                args   |-> [name     |-> u.username,
                            password |-> "{{ vault_" \o u.username \o "_password }}",
                            update_password |-> "on_create"]],
               [name   |-> "Update password for existing user " \o u.username,
                module |-> "amazon.aws.iam_user",
                args   |-> [name     |-> u.username,
                            password |-> "{{ vault_" \o u.username \o "_password }}",
                            update_password |-> "always"]],
               [name   |-> "Attach policy to " \o u.username,
                module |-> "amazon.aws.iam_user",
                args   |-> [name |-> u.username,
                            managed_policies |->
                                << "arn:aws:iam::aws:policy/" \o u.policy_name >>]] >>
    IN  [name       |-> "Create IAM Users with Password Expiration",
         hosts      |-> "localhost",
         vars_files |-> << "vault.yml" >>,
         tasks      |-> << password_policy_task >>
                        \o Concat([i \in 1..Len(us) |-> UserTasks(us[i])])]

\* lines 160-163: a later user of the same name replaces the earlier password
VaultData(us) ==
    [k \in {"vault_" \o us[i].username \o "_password" : i \in 1..Len(us)} |->
        LET last == CHOOSE i \in 1..Len(us) :
                      /\ "vault_" \o us[i].username \o "_password" = k
                      /\ \A j \in (i+1)..Len(us) : us[j].username # us[i].username
        IN  us[last].password]

\* what the two external commands of create_vault_file can do
EncryptOutcomes == {"ok", "nonzero", "not_found"}
RmOutcomes == {"ok", "nonzero", "not_found"}

\* mutant: the return code of ansible-vault is not looked at
VaultReturn_ignores_returncode(run) ==
    CASE run.encrypt = "not_found" -> FALSE
      [] run.rm = "not_found"      -> FALSE
      [] OTHER                     -> TRUE

\* lines 181-191: the value create_vault_file returns
VaultReturn(run) ==
    CASE run.encrypt = "not_found" -> FALSE      \* except FileNotFoundError
      [] run.encrypt = "nonzero"   -> FALSE      \* process.returncode != 0
      [] run.rm = "not_found"      -> FALSE      \* except FileNotFoundError
      [] OTHER                     -> TRUE

\* lines 165-187: the files after create_vault_file, given what the tools did
VaultFiles(fs, us, run) ==
    LET temp == [doc |-> "vault", encrypted |-> FALSE, data |-> VaultData(us)]
        vault == [doc |-> "vault", encrypted |-> TRUE, data |-> VaultData(us)]
        written == ("temp_vault.yml" :> temp) @@ fs
        encrypted == IF run.encrypt = "ok" THEN ("vault.yml" :> vault) @@ written
                     ELSE written
    IN  IF run.encrypt = "ok" /\ run.rm = "ok"
        THEN [p \in DOMAIN encrypted \ {"temp_vault.yml"} |-> encrypted[p]]
        ELSE encrypted

UsernameAnswers == {"", " ", "alice", " bob"}
ExpirationAnswers == { <<>>, <<"a", "b", "c">>, <<"0">>, <<"-", "5">>,
                       <<"3", "0">>, <<" ", "9", "0", " ">> }
PolicyAnswers == {"", "ReadOnlyAccess"}
VaultPasswordAnswers == {"", "s3cret"}

\* the characters a typed password is made of: any subset of one uppercase
\* letter, one lowercase letter, one digit and one listed symbol, then filled
\* with a character of none of these classes up to the typed length
PasswordCore(classes) ==
    (IF "upper" \in classes THEN << "Q" >> ELSE <<>>) \o
    (IF "lower" \in classes THEN << "w" >> ELSE <<>>) \o
    (IF "digit" \in classes THEN << "7" >> ELSE <<>>) \o
    (IF "symbol" \in classes THEN << "#" >> ELSE <<>>)

PasswordOf(classes, n) ==
    LET core == PasswordCore(classes) IN
    [i \in 1..n |-> IF i <= Len(core) THEN core[i] ELSE "~"]

PasswordAnswers ==
    { PasswordOf(classes, n) :
        classes \in SUBSET {"upper", "lower", "digit", "symbol"},
        n \in 0..MaxPasswordLen }

\* lines 15-18
IamEnterUsername ==
    /\ prog = "iam" /\ pc = "username"
    /\ Len(users) < MaxUsers
    /\ \E answer \in UsernameAnswers :
          \/ /\ Strip(answer) = ""                   \* continue
             /\ UNCHANGED <<pc, user>>
          \/ /\ Strip(answer) # ""
             /\ user' = ("username" :> Strip(answer))
             /\ pc' = "expiration"
    /\ UNCHANGED <<prog, files, users, vault_password, vault_run>>
    /\ UNCHANGED ansibleVars

\* lines 20-28
IamEnterExpiration ==
    /\ prog = "iam" /\ pc = "expiration"
    /\ \E answer \in ExpirationAnswers :
          LET parsed == ParseInt(StripChars(answer)) IN
          \/ /\ ~parsed.ok                           \* except ValueError: continue
             /\ user' = EmptyDict
             /\ pc' = "username"
          \/ /\ parsed.ok /\ parsed.value <= 0       \* continue
             /\ user' = EmptyDict
             /\ pc' = "username"
          \/ /\ parsed.ok /\ ~(parsed.value <= 0)
             /\ user' = user @@ ("expiration_days" :> parsed.value)
             /\ pc' = "policy"
    /\ UNCHANGED <<prog, files, users, vault_password, vault_run>>
    /\ UNCHANGED ansibleVars

\* lines 36-39
IamEnterPolicy ==
    /\ prog = "iam" /\ pc = "policy"
    /\ \E answer \in PolicyAnswers :
          \/ /\ Strip(answer) = ""                   \* continue
             /\ user' = EmptyDict
             /\ pc' = "username"
          \/ /\ Strip(answer) # ""
             /\ user' = user @@ ("policy_name" :> Strip(answer))
             /\ pc' = "password"
    /\ UNCHANGED <<prog, files, users, vault_password, vault_run>>
    /\ UNCHANGED ansibleVars

\* lines 41-68: one answer to the password prompt; a rejected one is asked
\* again in place, an accepted one completes the record, which is appended
IamEnterPassword ==
    /\ prog = "iam" /\ pc = "password"
    /\ \E password \in PasswordAnswers :
          \/ /\ ~PasswordAccepted(password)
             /\ UNCHANGED <<pc, user, users>>
          \/ /\ PasswordAccepted(password)
             /\ users' = Append(users, [username        |-> user["username"],
                                        expiration_days |-> user["expiration_days"],
                                        policy_name     |-> user["policy_name"],
                                        password        |-> password])
             /\ user' = EmptyDict
             /\ pc' = "another"
    /\ UNCHANGED <<prog, files, vault_password, vault_run>>
    /\ UNCHANGED ansibleVars

\* lines 70-74: the answer is lower-cased, not stripped
IamAnother ==
    /\ prog = "iam" /\ pc = "another"
    /\ \E answer \in AnotherAnswers :
          \/ /\ Lower(answer) = "y"
             /\ Len(users) < MaxUsers
             /\ pc' = "username"
          \/ /\ Lower(answer) # "y"
             /\ pc' = "iam_main"                     \* return users
    /\ UNCHANGED <<prog, files, users, user, vault_password, vault_run>>
    /\ UNCHANGED ansibleVars

\* lines 200-209: main after get_user_input returned
IamMain ==
    /\ prog = "iam" /\ pc = "iam_main"
    /\ \E answer \in VaultPasswordAnswers :
          /\ vault_password' = IF users = <<>> THEN vault_password ELSE answer
          /\ pc' = IF users = <<>> \/ answer = "" THEN "done" ELSE "create_vault"
    /\ UNCHANGED <<prog, files, users, user, vault_run>>
    /\ UNCHANGED ansibleVars

\* lines 213-215 with create_vault_file, lines 158-191
IamCreateVaultFile ==
    /\ prog = "iam" /\ pc = "create_vault"
    /\ \E encrypt \in EncryptOutcomes, rm \in RmOutcomes :
          LET run == [encrypt |-> encrypt,
                      rm      |-> IF encrypt = "ok" THEN rm ELSE "none"] IN
          /\ vault_run' = run
          /\ files' = VaultFiles(files, users, run)
          /\ pc' = IF VaultReturn(run) THEN "playbook" ELSE "done"
    /\ UNCHANGED <<prog, users, user, vault_password>>
    /\ UNCHANGED ansibleVars

\* lines 217-225
IamWritePlaybook ==
    /\ prog = "iam" /\ pc = "playbook"
    /\ files' = ("create_iam_users.yml" :>
                    [doc      |-> "iam_playbook",
                     playbook |-> << create_ansible_playbook(
                                        users, users[1].expiration_days) >>])
                @@ files
    /\ pc' = "done"
    /\ UNCHANGED <<prog, users, user, vault_password, vault_run>>
    /\ UNCHANGED ansibleVars

IamInit ==
    /\ prog = "iam"
    /\ pc = "username"
    /\ bucket_name = ""
    /\ servers = <<>>
    /\ server = <<>>
    /\ software_groups = <<>>
    /\ files = EmptyDict
    /\ users = <<>>
    /\ user = EmptyDict
    /\ vault_password = ""
    /\ vault_run = NoVaultRun

IamNext ==
    \/ IamEnterUsername
    \/ IamEnterExpiration
    \/ IamEnterPolicy
    \/ IamEnterPassword
    \/ IamAnother
    \/ IamMain
    \/ IamCreateVaultFile
    \/ IamWritePlaybook

\* ------------------------------------------------------------ specifications
\* one run of either generator
Init == AnsibleInit \/ IamInit

Next == AnsibleNext \/ IamNext

Spec == Init /\ [][Next]_vars

\* The task synthesizer on its own: main is entered with what get_user_input
\* returns for up to MaxGroupServers servers that each asked for nginx, with
\* every install method and every OS family.
TaskOsTypeAnswers == {"Ubuntu", "centos", "windows"}

TaskServers ==
    { [NewServer("ssm-logs", "web1", "i-0a1b2c3d4", "us-east-1", os_type)
          EXCEPT !.software = << MakeInfo(a) >>] :
        os_type \in TaskOsTypeAnswers, a \in MethodAnswers("nginx", "") }

TaskInit ==
    /\ prog = "ansible"
    /\ pc = "main"
    /\ bucket_name = "ssm-logs"
    /\ servers \in UNION { [1..n -> TaskServers] : n \in 0..MaxGroupServers }
    /\ server = <<>>
    /\ software_groups = GroupSoftware(servers)
    /\ files = EmptyDict
    /\ users = <<>>
    /\ user = EmptyDict
    /\ vault_password = ""
    /\ vault_run = NoVaultRun

TaskNext == Main

TaskSpec == TaskInit /\ [][TaskNext]_vars

\* ------------------------------------------------------------------ claims
\* create_files has run and written its documents
FilesCreated == prog = "ansible" /\ pc = "done" /\ "inventory.yml" \in DOMAIN files

\* the task sequence written for a group
WrittenTasks(group) == files[TaskFile(group)].tasks

\* the OS families of the servers of a group
GroupFamilies(group) ==
    { group.servers[i].server.os_family : i \in 1..Len(group.servers) }

\* the module a step runs: its one key besides the display name and the guard
StepKind(task) == CHOOSE k \in DOMAIN task \ {"name", "when"} : TRUE

\* the steps of a sequence that carry the guard of family F
StepsOfFamily(tasks, F) ==
    LET Guarded(t) == "when" \in DOMAIN t /\ t["when"] = WhenGuard(F) IN
    SelectSeq(tasks, Guarded)

\* the config of the first association of family F in a group
FirstConfigOf(group, F) ==
    LET first == CHOOSE i \in 1..Len(group.servers) :
                   /\ group.servers[i].server.os_family = F
                   /\ \A j \in 1..(i - 1) : group.servers[j].server.os_family # F
    IN  group.servers[first].config

\* C1: a group whose servers all have one OS family gets no step with a 'when'
\* guard; a group spanning two or more families gets only steps guarded by
\* ansible_os_family == '<F>' for a family F present in the group.
C1_GuardsFollowFamilyCount ==
    FilesCreated =>
        \A g \in 1..Len(software_groups) :
            LET group == software_groups[g]
                tasks == WrittenTasks(group)
                families == GroupFamilies(group)
            IN  /\ Cardinality(families) = 1 =>
                      \A i \in 1..Len(tasks) : "when" \notin DOMAIN tasks[i]
                /\ Cardinality(families) >= 2 =>
                      \A i \in 1..Len(tasks) :
                          /\ "when" \in DOMAIN tasks[i]
                          /\ \E F \in families : tasks[i]["when"] = WhenGuard(F)

\* C1 witness: a written group spanning two families with guarded steps
C1_Witness ==
    /\ FilesCreated
    /\ \E g \in 1..Len(software_groups) :
          /\ Cardinality(GroupFamilies(software_groups[g])) >= 2
          /\ Len(WrittenTasks(software_groups[g])) >= 3

\* the step kinds a package spec with a custom repository must produce
RepoStepOrder(config) ==
    (IF "key_url" \in DOMAIN config["custom_repo"] THEN << "rpm_key" >> ELSE <<>>)
    \o << "yum_repository", "yum", "package" >>

IsRepoPackage(config) ==
    config["install_method"] = "package" /\ "custom_repo" \in DOMAIN config

Kinds(tasks) == [i \in 1..Len(tasks) |-> StepKind(tasks[i])]

\* C2: the steps synthesized from a package spec with a custom repository are
\* [add-key (iff a key URL was given), add-repository, update-cache, install]
\* in unconditional and in conditional mode, and in the written per-group
\* sequence no bootstrap step follows the install step of its spec and family.
C2_RepoBootstrapBeforeInstall ==
    FilesCreated =>
        \A g \in 1..Len(software_groups) :
            LET group == software_groups[g]
                tasks == WrittenTasks(group)
                families == GroupFamilies(group)
                SameBlock(a, b) ==
                    IF "when" \in DOMAIN a
                    THEN "when" \in DOMAIN b /\ a["when"] = b["when"]
                    ELSE "when" \notin DOMAIN b
            IN  /\ Cardinality(families) = 1 =>
                      \A F \in families :
                          IsRepoPackage(FirstConfigOf(group, F)) =>
                              Kinds(tasks) = RepoStepOrder(FirstConfigOf(group, F))
                /\ Cardinality(families) >= 2 =>
                      \A F \in families :
                          IsRepoPackage(FirstConfigOf(group, F)) =>
                              Kinds(StepsOfFamily(tasks, F))
                                  = RepoStepOrder(FirstConfigOf(group, F))
                /\ \A i, j \in 1..Len(tasks) :
                      (i < j /\ SameBlock(tasks[i], tasks[j])) =>
                          ~(/\ StepKind(tasks[i]) = "package"
                            /\ StepKind(tasks[j]) \in {"rpm_key", "yum_repository", "yum"})

\* C2 witness: a written multi-family group in which one family's spec has a
\* custom repository with a signing key and another family's has one without
C2_Witness ==
    /\ FilesCreated
    /\ \E g \in 1..Len(software_groups) :
          LET group == software_groups[g] IN
          \E F1, F2 \in GroupFamilies(group) :
              /\ F1 # F2
              /\ IsRepoPackage(FirstConfigOf(group, F1))
              /\ IsRepoPackage(FirstConfigOf(group, F2))
              /\ "key_url" \in DOMAIN FirstConfigOf(group, F1)["custom_repo"]
              /\ "key_url" \notin DOMAIN FirstConfigOf(group, F2)["custom_repo"]
              /\ Len(WrittenTasks(group)) = 7

\* a step without its guard and its display name
StepLogic(task) == [k \in DOMAIN task \ {"name", "when"} |-> task[k]]

Logic(tasks) == [i \in 1..Len(tasks) |-> StepLogic(tasks[i])]

\* C3: for every spec of the four install methods and every family, the
\* conditional steps without their guards are the unconditional steps
\* (display names aside); a manual spec yields [create-install-directory,
\* download-and-extract] and a snap spec one install-via-snap step in both modes.
C3_ModesApplySameLogic ==
    FilesCreated =>
        \A g \in 1..Len(software_groups) :
            LET group == software_groups[g] IN
            Cardinality(GroupFamilies(group)) >= 2 =>
                \A F \in GroupFamilies(group) :
                    LET config == FirstConfigOf(group, F)
                        conditional == StepsOfFamily(WrittenTasks(group), F)
                        unconditional == generate_basic_tasks(config)
                    IN  config["install_method"]
                            \in {"package", "snap", "script", "manual"} =>
                            /\ conditional = generate_os_specific_tasks(config, F)
                            /\ Logic(conditional) = Logic(unconditional)
                            /\ config["install_method"] = "manual" =>
                                  Kinds(conditional) = << "file", "unarchive" >>
                            /\ config["install_method"] = "snap" =>
                                  Kinds(conditional) = << "snap" >>

RECURSIVE FamilyBlocks(_, _)
\* the conditional steps of the associations that are the first of their
\* family, in association order
FamilyBlocks(group, k) ==
    IF k > Len(group.servers) THEN <<>>
    ELSE LET F == group.servers[k].server.os_family
             firstOfFamily == \A j \in 1..(k - 1) : group.servers[j].server.os_family # F
         IN  (IF firstOfFamily
              THEN generate_os_specific_tasks(group.servers[k].config, F)
              ELSE <<>>)
             \o FamilyBlocks(group, k + 1)

\* C8: the task sequence of a group spanning several OS families is the
\* concatenation, over the families in first-seen order, of the steps
\* synthesized from the spec of the first association of each family; a later
\* association of a family already seen contributes nothing.
C8_FirstSeenFamilyBlocks ==
    FilesCreated =>
        \A g \in 1..Len(software_groups) :
            LET group == software_groups[g] IN
            Cardinality(GroupFamilies(group)) >= 2 =>
                /\ WrittenTasks(group) = FamilyBlocks(group, 1)
                /\ \A F \in GroupFamilies(group) :
                      StepsOfFamily(WrittenTasks(group), F)
                          = generate_os_specific_tasks(FirstConfigOf(group, F), F)

\* C8 witness: a written multi-family group whose third server repeats the
\* family of the first with a different spec
C8_Witness ==
    /\ FilesCreated
    /\ \E g \in 1..Len(software_groups) :
          LET group == software_groups[g] IN
          /\ Len(group.servers) >= 3
          /\ group.servers[1].server.os_family # group.servers[2].server.os_family
          /\ group.servers[3].server.os_family = group.servers[1].server.os_family
          /\ group.servers[3].config # group.servers[1].config
          /\ Len(generate_os_specific_tasks(group.servers[3].config,
                                            group.servers[3].server.os_family)) >= 1
          /\ Len(WrittenTasks(group)) >= 2

\* get_user_input of the Ansible generator has returned a grouping
Grouped == prog = "ansible" /\ pc \in {"main", "done"} /\ bucket_name # ""

\* every software entry typed, in input order
AllSoftware(srvs) == Concat([i \in 1..Len(srvs) |-> srvs[i].software])

NamedSoftware(srvs, name) ==
    LET HasName(software) == software["name"] = name IN
    SelectSeq(AllSoftware(srvs), HasName)

RECURSIVE DistinctInOrder(_)
\* the first occurrence of every element, in order
DistinctInOrder(s) ==
    IF s = <<>> THEN <<>>
    ELSE LET rest == DistinctInOrder(SubSeq(s, 1, Len(s) - 1)) IN
         IF InList(s[Len(s)], rest) THEN rest ELSE Append(rest, s[Len(s)])

SoftwareNames(srvs) ==
    { AllSoftware(srvs)[i]["name"] : i \in 1..Len(AllSoftware(srvs)) }

\* C4: after grouping, each group's configuration list is the sequence of
\* distinct specs (all fields compared) of its software name in first-seen
\* order: exact duplicates are recorded once, differing specs are all kept.
C4_ConfigsAreDistinctFirstSeen ==
    Grouped =>
        /\ Len(software_groups) = Cardinality(SoftwareNames(servers))
        /\ \A name \in SoftwareNames(servers) :
              \E g \in 1..Len(software_groups) :
                  software_groups[g].configs
                      = DistinctInOrder(NamedSoftware(servers, name))

\* C4 witness: a group referenced three times that keeps two configurations
C4_Witness ==
    /\ Grouped /\ pc = "done"
    /\ \E g \in 1..Len(software_groups) :
          /\ Len(software_groups[g].servers) = 3
          /\ Len(software_groups[g].configs) = 2
          /\ software_groups[g].servers[1].config = software_groups[g].servers[3].config

\* the hosts of the inventory group of a software name
WrittenHosts(name) ==
    DOMAIN files["inventory.yml"].inventory["all"]["children"]
               [name \o "_servers"]["hosts"]

WrittenInventoryGroups ==
    DOMAIN files["inventory.yml"].inventory["all"]["children"]

ServerHasSoftware(srv, name) ==
    \E k \in 1..Len(srv.software) : srv.software[k]["name"] = name

\* C5: the inventory group '<name>_servers' has as host keys exactly the
\* hostnames of the servers owning at least one spec of that name.
C5_InventoryGroupHosts ==
    FilesCreated =>
        /\ WrittenInventoryGroups
              = { name \o "_servers" : name \in SoftwareNames(servers) }
        /\ \A name \in SoftwareNames(servers) :
              WrittenHosts(name)
                  = { servers[i].hostname :
                        i \in { j \in 1..Len(servers) :
                                  ServerHasSoftware(servers[j], name) } }

\* C5 witness: one server lists nginx twice, another server only has docker
C5_Witness ==
    /\ FilesCreated
    /\ \E i, j \in 1..Len(servers) :
          /\ servers[i].hostname # servers[j].hostname
          /\ Len(NamedSoftware(<< servers[i] >>, "nginx")) = 2
          /\ ~ServerHasSoftware(servers[j], "nginx")
          /\ ServerHasSoftware(servers[j], "docker")
          /\ WrittenHosts("nginx") = { servers[i].hostname }

\* every hostname the inventory document lists
WrittenHostnames ==
    UNION { DOMAIN files["inventory.yml"].inventory["all"]["children"][n]["hosts"] :
              n \in WrittenInventoryGroups }

\* C7 as stated: a server entered with zero specs is retained in the
\* generated inventory whenever the run generates artifacts.
C7_ZeroSoftwareServerRetained ==
    FilesCreated =>
        \A i \in 1..Len(servers) :
            servers[i].software = <<>> => servers[i].hostname \in WrittenHostnames

\* C7 amended: the inventory lists only hostnames of servers with at least
\* one spec, and no group association (hence no task) refers to a server
\* without software: a server entered with zero specs is left out.
C7_ZeroSoftwareServerLeftOut ==
    FilesCreated =>
        /\ \A h \in WrittenHostnames :
              \E i \in 1..Len(servers) :
                  servers[i].hostname = h /\ servers[i].software # <<>>
        /\ \A g \in 1..Len(software_groups) :
              \A k \in 1..Len(software_groups[g].servers) :
                  software_groups[g].servers[k].server.software # <<>>

\* C7 witness: artifacts were written and a server without software, whose
\* hostname no other server carries, is not in the inventory
C7_Witness ==
    /\ FilesCreated
    /\ \E i \in 1..Len(servers) :
          /\ servers[i].software = <<>>
          /\ \A j \in 1..Len(servers) :
                j # i => servers[j].hostname # servers[i].hostname
          /\ servers[i].hostname \notin WrittenHostnames

\* C6: create_iam_users.yml is written only after a successful encryption;
\* when the tool exits non-zero or is absent the run ends without it.
C6_PlaybookOnlyAfterVault ==
    prog = "iam" =>
        /\ "create_iam_users.yml" \in DOMAIN files =>
              /\ vault_run.encrypt = "ok"
              /\ "vault.yml" \in DOMAIN files
              /\ files["vault.yml"].encrypted
        /\ (pc = "done" /\ vault_run.encrypt \in {"nonzero", "not_found"}) =>
              "create_iam_users.yml" \notin DOMAIN files
        /\ pc = "playbook" => vault_run.encrypt = "ok"

\* C6 witness: the run ended with the playbook written after an encryption
C6_Witness ==
    /\ prog = "iam" /\ pc = "done"
    /\ "create_iam_users.yml" \in DOMAIN files
    /\ vault_run.encrypt = "ok"

\* a user record that passed every validation of the input loop
ValidUser(u) ==
    /\ u.username # ""
    /\ u.expiration_days \in Int /\ u.expiration_days > 0
    /\ u.policy_name # ""
    /\ Len(u.password) >= 12
    /\ \E c \in Range(u.password) : c \in UpperChars
    /\ \E c \in Range(u.password) : c \in LowerChars
    /\ \E c \in Range(u.password) : c \in DigitChars
    /\ \E c \in Range(u.password) : c \in SymbolChars

\* C9: every record of users is valid, and the list only ever grows by one
\* valid record at the acceptance of a password: a rejected answer adds none.
C9_OnlyValidatedRecords ==
    /\ [](prog = "iam" => \A i \in 1..Len(users) : ValidUser(users[i]))
    /\ [][users' # users =>
            /\ pc = "password" /\ pc' = "another"
            /\ Len(users') = Len(users) + 1
            /\ SubSeq(users', 1, Len(users)) = users
            /\ ValidUser(users'[Len(users')])
            /\ users'[Len(users')].username = user["username"]]_vars

\* C9 witness: two records were accepted and the run went on to the playbook
C9_Witness ==
    /\ prog = "iam" /\ pc = "done"
    /\ Len(users) = 2
    /\ "create_iam_users.yml" \in DOMAIN files

\* C10: with incomplete input the run ends with no file written.
C10_IncompleteInputWritesNothing ==
    /\ (prog = "ansible" /\ pc = "done"
        /\ (\/ bucket_name = ""
            \/ servers = <<>>
            \/ \A i \in 1..Len(servers) : servers[i].software = <<>>))
       => files = EmptyDict
    /\ (prog = "iam" /\ pc = "done" /\ (users = <<>> \/ vault_password = ""))
       => files = EmptyDict

\* C10 witness: servers were entered, none with software, and the run ended
\* without a file
C10_Witness ==
    /\ prog = "ansible" /\ pc = "done"
    /\ Len(servers) = 2
    /\ \A i \in 1..Len(servers) : servers[i].software = <<>>
    /\ files = EmptyDict

\* create_vault_file has returned
VaultFileReturned == prog = "iam" /\ vault_run.encrypt # "none"

\* the files on disk that hold the users' passwords in plain text
PlaintextPasswordFiles ==
    { p \in DOMAIN files :
        /\ files[p].doc = "vault"
        /\ ~files[p].encrypted
        /\ files[p].data # EmptyDict }

\* C11: whenever create_vault_file has returned, whatever the encryption tool
\* did, temp_vault.yml no longer exists, so that no file other than the
\* encrypted vault.yml holds the passwords.
C11_TempVaultRemovedOnReturn ==
    VaultFileReturned =>
        /\ "temp_vault.yml" \notin DOMAIN files
        /\ PlaintextPasswordFiles = {}


====
